---- MODULE Spec2Model ----
(***************************************************************************)
(* A model of the storage engine of filshare_rust (src/src/storage.rs):    *)
(* the files and directories tables of the embedded store, the blob store  *)
(* under upload_dir, and the request tasks that run FileStorage's async    *)
(* methods.  Every .await of a method is one step of the task that runs    *)
(* it, so steps of different tasks interleave where the runtime lets them. *)
(***************************************************************************)
EXTENDS Integers, Sequences, FiniteSets, TLC

\* ------------------------------------------------------------------ bounds
MaxTasks == 2      \* request tasks that may run at the same time
MaxDirs == 3       \* directory ids Uuid::new_v4 can hand out
MaxFiles == 2      \* file ids Uuid::new_v4 can hand out
MaxClock == 1      \* last instant the wall clock reaches
MaxFailures == 1   \* store steps that may fail in one behaviour
MaxBulk == 2       \* longest id list given to bulk_delete
MaxMoveFiles == 1  \* files saved where the timestamps of the tree are followed
MaxBulkDirs == 2   \* directories made where bulk deletes are followed
MaxBulkFiles == 1  \* files saved where bulk deletes are followed
MaxStampDirs == 2  \* directories made where concurrent moves are timed

Tasks == 1..MaxTasks
DirIds == 1..MaxDirs
FileIds == 1..MaxFiles

\* Option::None of a parent reference, and of the id a task works on.
Null == 0
\* An id string that is no directory's id and never will be.
Ghost == -1

\* original_filename values, as character sequences.
Filenames == { <<"y">>, <<"r", ".", "t">> }
\* content_bytes values, pairwise distinct.
Contents == { <<>>, <<7>>, <<7, 9>> }
\* Directory display names.
DirNames == { <<"a">> }

VARIABLES
    directories,   \* the directories table: id -> row
    files,         \* the files table: id -> row
    blobs,         \* the blob store: storage_path -> bytes
    usedDirIds,    \* directory ids Uuid::new_v4 has returned
    usedFileIds,   \* file ids Uuid::new_v4 has returned
    clock,         \* the wall clock Utc::now reads
    failures,      \* store steps that have failed so far (capped)
    lastDel,       \* the calls that completed last: the delete_file calls of
                   \* one id (how many in a row, up to 2, what the first
                   \* returned, what they came after), or the
                   \* create_directory and the stores it started from
    task           \* per request task: the method it runs and its locals

vars == <<directories, files, blobs, usedDirIds, usedFileIds, clock, failures,
          lastDel, task>>
tables == <<directories, files>>
stores == <<directories, files, blobs>>

\* ---------------------------------------------------------- pure helpers
Min(a, b) == IF a < b THEN a ELSE b

\* f without the keys in S.
Without(f, S) == [x \in DOMAIN f \ S |-> f[x]]

RECURSIVE LastDot(_, _)
\* Index of the last "." of name at or before position i, 0 if none.
LastDot(name, i) ==
    IF i = 0 THEN 0
    ELSE IF name[i] = "." THEN i
    ELSE LastDot(name, i - 1)

\* Path::new(filename).extension(): the part after the last dot of the file
\* name; none (here the empty sequence, as unwrap_or("") makes it) when there
\* is no dot or the only dot is the first character.
Extension(name) ==
    LET d == LastDot(name, Len(name))
    IN  IF d <= 1 THEN <<>> ELSE SubSeq(name, d + 1, Len(name))

\* stored_filename: the id, or id "." extension.
StoredFilename(id, name) == <<id, Extension(name)>>

\* A path built from the client's file name instead of the stored one.
StoragePathOfOriginal(id, name) == <<Null, name>>

\* upload_dir.join(stored_filename), kept as the stored name itself.
StoragePath(id, name) == StoredFilename(id, name)

\* ------------------------------------------------ metadata store statements
\* SELECT ... FROM files WHERE id = ? with fetch_optional: the rows found.
SelectFile(fs, id) == { fs[f] : f \in DOMAIN fs \cap {id} }

\* SELECT ... FROM directories WHERE id = ? with fetch_optional.
SelectDirectory(dirs, id) == { dirs[d] : d \in DOMAIN dirs \cap {id} }

\* INSERT INTO files (...) VALUES (...).
InsertFile(fs, id, row) == (id :> row) @@ fs

\* INSERT INTO directories (...) VALUES (...).
InsertDirectory(dirs, id, row) == (id :> row) @@ dirs

\* A DELETE whose WHERE matches no row.
DeleteFileRowMissed(fs, id) == fs

\* DELETE FROM files WHERE id = ?.
DeleteFileRow(fs, id) == Without(fs, {id})

\* A DELETE of every file that is in a directory.
DeleteFilesInAny(fs, d) ==
    Without(fs, { f \in DOMAIN fs : fs[f].parent_directory_id # Null })

\* DELETE FROM files WHERE parent_directory_id = ?.
DeleteFilesIn(fs, d) ==
    Without(fs, { f \in DOMAIN fs : fs[f].parent_directory_id = d })

\* An UPDATE without its WHERE.
UpdateFileParentOfAll(fs, id, p) ==
    [f \in DOMAIN fs |-> [fs[f] EXCEPT !.parent_directory_id = p]]

\* UPDATE files SET parent_directory_id = ? WHERE id = ?.
UpdateFileParent(fs, id, p) ==
    [f \in DOMAIN fs |->
        IF f = id THEN [fs[f] EXCEPT !.parent_directory_id = p] ELSE fs[f]]

\* UPDATE directories SET parent_id = ?, updated_at = ? WHERE id = ?.
UpdateDirectoryParent(dirs, id, p, now) ==
    [d \in DOMAIN dirs |->
        IF d = id THEN [dirs[d] EXCEPT !.parent_id = p, !.updated_at = now]
        ELSE dirs[d]]

RECURSIVE CascadeDirs(_, _)
\* ON DELETE CASCADE on directories.parent_id: the directory rows that go
\* when the rows in S go, each deleted row taking the rows that refer to it.
CascadeDirs(dirs, S) ==
    LET kids == { x \in DOMAIN dirs \ S : dirs[x].parent_id \in S }
    IN  IF kids = {} THEN S ELSE CascadeDirs(dirs, S \cup kids)

\* ON DELETE CASCADE on files.parent_directory_id: the file rows left once
\* the directory rows in gone are deleted.
CascadeFiles(fs, gone) ==
    Without(fs, { f \in DOMAIN fs : fs[f].parent_directory_id \in gone })

\* The two tables once the directory rows in S are deleted, with the
\* cascades of the schema.
OnDeleteCascade(dirs, fs, S) ==
    IF S = {} THEN <<dirs, fs>>
    ELSE LET gone == CascadeDirs(dirs, S)
         IN  <<Without(dirs, gone), CascadeFiles(fs, gone)>>

\* A DELETE that names the wrong column: WHERE parent_id = ?.
DeleteDirectoryRowByParent(dirs, fs, d) ==
    OnDeleteCascade(dirs, fs, { x \in DOMAIN dirs : dirs[x].parent_id = d })

\* DELETE FROM directories WHERE id = ?: the two tables afterwards.
DeleteDirectoryRow(dirs, fs, d) ==
    OnDeleteCascade(dirs, fs, DOMAIN dirs \cap {d})

\* A rows_affected() that reports one row.
RowsAffectedOne(before, after) == 1

\* A rows_affected() that reports no row.
RowsAffectedZero(before, after) == 0

\* rows_affected() of a statement that took table before to table after.
RowsAffected(before, after) ==
    Cardinality(DOMAIN before) - Cardinality(DOMAIN after)

\* ------------------------------------------------------ blob store calls
\* fs::File::create(path): the blob exists and is empty.
CreateBlob(bl, path) == (path :> <<>>) @@ bl

\* A write that never reaches the blob.
WriteBlobDropped(bl, path, content) == bl

\* write_all(content) and flush() on the handle File::create opened; the
\* bytes land in the blob when it is still linked at path.
WriteBlob(bl, path, content) ==
    IF path \in DOMAIN bl THEN (path :> content) @@ bl ELSE bl

\* Path::exists().
BlobExists(bl, path) == path \in DOMAIN bl

\* A remove_file that leaves the blob.
RemoveFileKept(bl, path) == bl

\* fs::remove_file(path), when the blob is there.
RemoveFile(bl, path) == Without(bl, {path})

\* ------------------------------------------------------------- the tasks
IdleTask ==
    [op |-> "none", pc |-> "idle", id |-> Null, target |-> Null,
     name |-> <<>>, content |-> <<>>, path |-> <<>>, cur |-> Null,
     now |-> 0, ret |-> "none", fids |-> <<>>, dids |-> <<>>,
     nf |-> 0, nd |-> 0, hops |-> 0, via |-> "none", out |-> <<>>,
     args |-> <<>>, snap |-> <<>>]

\* Utc::now(): the instant the clock shows.
NowValues == { clock }

\* A task may take a new request when it runs none.
Free(t) == task[t].pc = "idle"

\* No method has just returned: the handler that called it has replied.  A
\* method returns to its handler, which replies before anything else
\* happens; the reply touches no store.
Replied == \A t \in Tasks : task[t].pc # "done"

\* Ids generated by a call that has not yet stored its row: no client has
\* seen them.
InFlightFileIds ==
    { task[t].id : t \in { u \in Tasks : task[u].op = "save_file"
                                           /\ ~Free(u) } }
InFlightDirIds ==
    { task[t].id : t \in { u \in Tasks : task[u].op = "create_directory"
                                           /\ ~Free(u) } }

\* The id strings a client can pass: ids it was given, or a string that is
\* no id.
FileIdInputs == (usedFileIds \ InFlightFileIds) \cup {Ghost}
DirIdInputs == (usedDirIds \ InFlightDirIds) \cup {Ghost}
\* Option<String> parent arguments.
ParentInputs == DirIdInputs \cup {Null}

\* Uuid::new_v4(): an id no earlier call was given. Ids are opaque and only
\* ever compared for equality, so the least unused one stands for them all.
FreshIds(ids, used) == { i \in ids \ used : \A j \in ids \ used : i <= j }

\* Sequences over S of length at most n.
SeqsUpTo(S, n) == UNION { [1..k -> S] : k \in 0..n }

\* What ? passes on: a failed store call, and the NotFound of remove_file.
Errors == {"IoError", "NotFound"}

NoDel == [id |-> Null, n |-> 0, first |-> "none", after |-> "none",
          snap |-> <<>>]

\* The row of file id is there and the blob at its storage_path is not.
Dangling(id) ==
    id \in DOMAIN files /\ files[id].storage_path \notin DOMAIN blobs

\* The record of the last calls once op(id) has returned r.  A delete_file
\* that fails leaving a row without its blob is remembered, so that the
\* delete_file of the same id that follows is known to come after it; a
\* create_directory is remembered with the stores it started from.
Completed(last, op, id, r) ==
    IF op = "delete_file" /\ r \in {"true", "false"}
    THEN IF last.n > 0 /\ last.id = id
         THEN [last EXCEPT !.n = Min(last.n + 1, 2)]
         ELSE [NoDel EXCEPT !.id = id, !.n = 1, !.first = r,
                            !.after = IF last.first = "dangling"
                                         /\ last.id = id
                                      THEN "dangling" ELSE "none"]
    ELSE IF op = "delete_file" /\ r \in Errors /\ Dangling(id)
    THEN [NoDel EXCEPT !.id = id, !.first = "dangling"]
    ELSE IF op = "create_directory" /\ r = "ok"
    THEN [NoDel EXCEPT !.id = id, !.first = "made", !.snap = stores]
    ELSE IF op = "delete_directory" /\ last.first = "made" /\ last.id = id
    THEN [last EXCEPT !.first = "unmade"]
    ELSE NoDel

\* The call returns r, with the value o, to its caller.
FinishWith(t, r, o) ==
    /\ task' = [task EXCEPT ![t] =
                    [@ EXCEPT !.pc = "done", !.ret = r, !.cur = Null,
                              !.now = 0, !.hops = 0, !.out = o]]
    /\ lastDel' = Completed(lastDel, task[t].op, task[t].id, r)

\* The call returns r to its caller.
Finish(t, r) == FinishWith(t, r, task[t].out)

\* Loops that go on to the next id when a delete fails.
BulkResumeAfterError(t, kind, r) ==
    /\ task' = [task EXCEPT ![t] =
                    [@ EXCEPT !.pc = "bd_next",
                              !.nf = @ + (IF kind = "file" /\ r = "true" THEN 1 ELSE 0),
                              !.nd = @ + (IF kind = "dir" /\ r = "true" THEN 1 ELSE 0)]]
    /\ UNCHANGED lastDel

\* bulk_delete's loops: a delete that returned r inside bulk_delete. The ?
\* operator passes an error on; true counts one.
BulkResume(t, kind, r) ==
    IF r \in Errors THEN Finish(t, r)
    ELSE /\ task' = [task EXCEPT ![t] =
                        [@ EXCEPT !.pc = "bd_next",
                                  !.nf = @ + (IF kind = "file" /\ r = "true" THEN 1 ELSE 0),
                                  !.nd = @ + (IF kind = "dir" /\ r = "true" THEN 1 ELSE 0)]]
         /\ UNCHANGED lastDel

\* delete_file returns r, to bulk_delete or to the request.
DeleteFileReturn(t, r) ==
    IF task[t].op = "bulk_delete" THEN BulkResume(t, "file", r) ELSE Finish(t, r)

\* delete_directory returns r, to bulk_delete or to the request.
DeleteDirectoryReturn(t, r) ==
    IF task[t].op = "bulk_delete" THEN BulkResume(t, "dir", r) ELSE Finish(t, r)

Init ==
    /\ directories = <<>>
    /\ files = <<>>
    /\ blobs = <<>>
    /\ usedDirIds = {}
    /\ usedFileIds = {}
    /\ clock = 0
    /\ failures = 0
    /\ lastDel = NoDel
    /\ task = [t \in Tasks |-> IdleTask]

\* Task t starts working on record r.
Start(t, r) ==
    /\ Free(t)
    /\ Replied
    /\ task' = [task EXCEPT ![t] = r]

\* A store step of task t fails with err: the ? operator returns it.
StepFails(t, err) ==
    /\ failures' = Min(failures + 1, MaxFailures)
    /\ DeleteFileReturn(t, err)

\* -------------------------------------------------------------- save_file
\* A row whose storage_path leaves the extension out.
FileMetadataBarePath(id, name, content, now, parent) ==
    [id |-> id,
     filename |-> StoredFilename(id, name),
     original_filename |-> name,
     file_size |-> Len(content),
     storage_path |-> <<id, <<>>>>,
     uploaded_at |-> now,
     parent_directory_id |-> parent]

\* A row that leaves the parent out.
FileMetadataAtRoot(id, name, content, now, parent) ==
    [id |-> id,
     filename |-> StoredFilename(id, name),
     original_filename |-> name,
     file_size |-> Len(content),
     storage_path |-> StoragePath(id, name),
     uploaded_at |-> now,
     parent_directory_id |-> Null]

\* The FileMetadata save_file builds.
FileMetadata(id, name, content, now, parent) ==
    [id |-> id,
     filename |-> StoredFilename(id, name),
     original_filename |-> name,
     file_size |-> Len(content),
     storage_path |-> StoragePath(id, name),
     uploaded_at |-> now,
     parent_directory_id |-> parent]

\* save_file is called with a name of names and a content of contents, when
\* fewer than limit files were saved before: a fresh id, the stored name and
\* the path.
CallSaveFile(t, names, contents, limit) ==
    \E id \in FreshIds(FileIds, usedFileIds), name \in names,
       content \in contents, parent \in ParentInputs :
        /\ Cardinality(usedFileIds) < limit
        /\ Start(t, [IdleTask EXCEPT !.op = "save_file", !.pc = "sf_create",
                                     !.id = id, !.name = name,
                                     !.content = content, !.target = parent,
                                     !.path = StoragePath(id, name)])
        /\ usedFileIds' = usedFileIds \cup {id}
        /\ UNCHANGED <<directories, files, blobs, usedDirIds, clock,
                       failures, lastDel>>

\* fs::File::create(&file_path).await
SfCreate(t) ==
    /\ task[t].pc = "sf_create"
    /\ Replied
    /\ blobs' = CreateBlob(blobs, task[t].path)
    /\ task' = [task EXCEPT ![t].pc = "sf_write"]
    /\ UNCHANGED <<directories, files, usedDirIds, usedFileIds, clock,
                   failures, lastDel>>

\* file.write_all(content).await, file.flush().await, then Utc::now().
SfWrite(t) ==
    /\ task[t].pc = "sf_write"
    /\ Replied
    /\ blobs' = WriteBlob(blobs, task[t].path, task[t].content)
    /\ \E now \in NowValues :
        /\ clock' = now
        /\ task' = [task EXCEPT ![t].pc = "sf_insert", ![t].now = now]
    /\ UNCHANGED <<directories, files, usedDirIds, usedFileIds, failures,
                   lastDel>>

\* INSERT INTO files ... .await, then Ok(metadata).
SfInsert(t) ==
    /\ task[t].pc = "sf_insert"
    /\ Replied
    /\ files' = InsertFile(files, task[t].id,
                           FileMetadata(task[t].id, task[t].name,
                                        task[t].content, task[t].now,
                                        task[t].target))
    /\ Finish(t, "ok")
    /\ UNCHANGED <<directories, blobs, usedDirIds, usedFileIds, clock,
                   failures>>

\* ------------------------------------------------------------ delete_file
\* delete_file is called.
CallDeleteFile(t) ==
    \E id \in FileIdInputs :
        /\ Start(t, [IdleTask EXCEPT !.op = "delete_file", !.pc = "df_get",
                                     !.id = id])
        /\ UNCHANGED <<directories, files, blobs, usedDirIds, usedFileIds,
                       clock, failures, lastDel>>

\* self.get_file_metadata(file_id).await
DfGet(t) ==
    /\ task[t].pc = "df_get"
    /\ Replied
    /\ LET found == SelectFile(files, task[t].id)
       IN  IF found = {} THEN DeleteFileReturn(t, "false")
           ELSE /\ \E meta \in found :
                    task' = [task EXCEPT ![t].pc = "df_exists",
                                         ![t].path = meta.storage_path]
                /\ UNCHANGED lastDel
    /\ UNCHANGED <<directories, files, blobs, usedDirIds, usedFileIds,
                   clock, failures>>

\* if file_path.exists()
DfExists(t) ==
    /\ task[t].pc = "df_exists"
    /\ Replied
    /\ task' = [task EXCEPT ![t].pc =
                    IF BlobExists(blobs, task[t].path) THEN "df_remove"
                    ELSE "df_delete"]
    /\ UNCHANGED <<directories, files, blobs, usedDirIds, usedFileIds,
                   clock, failures, lastDel>>

\* fs::remove_file(file_path).await?  A blob that is no longer there makes
\* remove_file return NotFound, which ? returns.
DfRemove(t) ==
    /\ task[t].pc = "df_remove"
    /\ Replied
    /\ IF BlobExists(blobs, task[t].path)
       THEN /\ blobs' = RemoveFile(blobs, task[t].path)
            /\ task' = [task EXCEPT ![t].pc = "df_delete"]
            /\ UNCHANGED <<failures, lastDel>>
       ELSE /\ StepFails(t, "NotFound")
            /\ UNCHANGED blobs
    /\ UNCHANGED <<directories, files, usedDirIds, usedFileIds, clock>>

\* DELETE FROM files WHERE id = ? .await, then Ok(rows_affected() > 0).
DfDelete(t) ==
    /\ task[t].pc = "df_delete"
    /\ Replied
    /\ files' = DeleteFileRow(files, task[t].id)
    /\ DeleteFileReturn(t, IF RowsAffected(files, files') > 0 THEN "true"
                           ELSE "false")
    /\ UNCHANGED <<directories, blobs, usedDirIds, usedFileIds, clock,
                   failures>>

\* -------------------------------------------------------- create_directory
\* The Directory create_directory builds.
Directory(id, name, parent, now) ==
    [id |-> id, name |-> name, parent_id |-> parent,
     created_at |-> now, updated_at |-> now]

\* create_directory is called: a fresh id and Utc::now().
CallCreateDirectory(t) ==
    \E id \in FreshIds(DirIds, usedDirIds), name \in DirNames,
       parent \in ParentInputs, now \in NowValues :
        /\ Start(t, [IdleTask EXCEPT !.op = "create_directory",
                                     !.pc = "cd_insert", !.id = id,
                                     !.name = name, !.target = parent,
                                     !.now = now])
        /\ usedDirIds' = usedDirIds \cup {id}
        /\ clock' = now
        /\ UNCHANGED <<directories, files, blobs, usedFileIds, failures,
                       lastDel>>

\* create_directory is called when fewer than limit directories were made.
CallCreateDirectoryUpTo(t, limit) ==
    /\ Cardinality(usedDirIds) < limit
    /\ CallCreateDirectory(t)

\* INSERT INTO directories ... .await, then Ok(directory).
CdInsert(t) ==
    /\ task[t].pc = "cd_insert"
    /\ Replied
    /\ directories' = InsertDirectory(directories, task[t].id,
                                      Directory(task[t].id, task[t].name,
                                                task[t].target, task[t].now))
    /\ Finish(t, "ok")
    /\ UNCHANGED <<files, blobs, usedDirIds, usedFileIds, clock, failures>>

\* -------------------------------------------------------- delete_directory
\* delete_directory is called.
CallDeleteDirectory(t) ==
    \E id \in DirIdInputs :
        /\ Start(t, [IdleTask EXCEPT !.op = "delete_directory",
                                     !.pc = "dd_get", !.id = id])
        /\ UNCHANGED <<directories, files, blobs, usedDirIds, usedFileIds,
                       clock, failures, lastDel>>

\* self.get_directory(dir_id).await; none returns Ok(false).
DdGet(t) ==
    /\ task[t].pc = "dd_get"
    /\ Replied
    /\ IF SelectDirectory(directories, task[t].id) = {}
       THEN DeleteDirectoryReturn(t, "false")
       ELSE /\ task' = [task EXCEPT ![t].pc = "dd_delete_files"]
            /\ UNCHANGED lastDel
    /\ UNCHANGED <<directories, files, blobs, usedDirIds, usedFileIds,
                   clock, failures>>

\* A delete_directory that also unlinks the blobs of the files it deletes.
DdDeleteFilesAndBlobs(t) ==
    /\ task[t].pc = "dd_delete_files"
    /\ Replied
    /\ files' = DeleteFilesIn(files, task[t].id)
    /\ blobs' = Without(blobs, { files[f].storage_path :
                                  f \in DOMAIN files \ DOMAIN files' })
    /\ task' = [task EXCEPT ![t].pc = "dd_delete_dir"]
    /\ UNCHANGED <<directories, usedDirIds, usedFileIds, clock, failures,
                   lastDel>>

\* DELETE FROM files WHERE parent_directory_id = ? .await
DdDeleteFiles(t) ==
    /\ task[t].pc = "dd_delete_files"
    /\ Replied
    /\ files' = DeleteFilesIn(files, task[t].id)
    /\ task' = [task EXCEPT ![t].pc = "dd_delete_dir"]
    /\ UNCHANGED <<directories, blobs, usedDirIds, usedFileIds, clock,
                   failures, lastDel>>

\* DELETE FROM directories WHERE id = ? .await, then
\* Ok(rows_affected() > 0).
DdDeleteDir(t) ==
    /\ task[t].pc = "dd_delete_dir"
    /\ Replied
    /\ LET after == DeleteDirectoryRow(directories, files, task[t].id)
       IN  /\ directories' = after[1]
           /\ files' = after[2]
    /\ DeleteDirectoryReturn(t, IF task[t].id \in DOMAIN directories
                                THEN "true" ELSE "false")
    /\ UNCHANGED <<blobs, usedDirIds, usedFileIds, clock, failures>>

\* --------------------------------------------------------------- move_file
\* move_file is called.
CallMoveFile(t) ==
    \E id \in FileIdInputs, parent \in ParentInputs :
        /\ Start(t, [IdleTask EXCEPT !.op = "move_file", !.pc = "mf_update",
                                     !.id = id, !.target = parent])
        /\ UNCHANGED <<directories, files, blobs, usedDirIds, usedFileIds,
                       clock, failures, lastDel>>

\* UPDATE files SET parent_directory_id = ? WHERE id = ? .await; no row
\* affected returns Ok(None).
MfUpdate(t) ==
    /\ task[t].pc = "mf_update"
    /\ Replied
    /\ files' = UpdateFileParent(files, task[t].id, task[t].target)
    /\ IF task[t].id \in DOMAIN files
       THEN /\ task' = [task EXCEPT ![t].pc = "mf_get"]
            /\ UNCHANGED lastDel
       ELSE Finish(t, "none")
    /\ UNCHANGED <<directories, blobs, usedDirIds, usedFileIds, clock,
                   failures>>

\* self.get_file_metadata(file_id).await, then Ok(metadata): the row found,
\* as a sequence of one, or of none.
MfGet(t) ==
    /\ task[t].pc = "mf_get"
    /\ Replied
    /\ LET found == SelectFile(files, task[t].id)
       IN  IF found = {}
           THEN FinishWith(t, "none", <<>>)
           ELSE \E meta \in found : FinishWith(t, "some", <<meta>>)
    /\ UNCHANGED <<directories, files, blobs, usedDirIds, usedFileIds,
                   clock, failures>>

\* ---------------------------------------------------------- move_directory
\* move_directory is called.
CallMoveDirectory(t) ==
    \E id \in DirIdInputs, parent \in ParentInputs :
        /\ Start(t, [IdleTask EXCEPT !.op = "move_directory",
                                     !.pc = "md_check", !.id = id,
                                     !.target = parent])
        /\ UNCHANGED <<directories, files, blobs, usedDirIds, usedFileIds,
                       clock, failures, lastDel>>

\* A move_directory without the test for a move into itself.
IsSelfMoveUnchecked(id, target) == FALSE

\* if target_id == dir_id
IsSelfMove(id, target) == target = id

\* The task leaves the ancestor check with false: Utc::now(), then the
\* UPDATE is next.
ToUpdate(t) ==
    /\ \E now \in NowValues :
        /\ clock' = now
        /\ task' = [task EXCEPT ![t].pc = "md_update", ![t].now = now,
                                ![t].cur = Null, ![t].hops = 0]
    /\ UNCHANGED lastDel

\* The checks at the head of move_directory, up to the first get_directory
\* of is_ancestor_of.
MdCheck(t) ==
    /\ task[t].pc = "md_check"
    /\ Replied
    /\ IF task[t].target = Null THEN ToUpdate(t)
       ELSE IF IsSelfMove(task[t].id, task[t].target)
       THEN Finish(t, "InvalidMove") /\ UNCHANGED clock
       ELSE /\ task' = [task EXCEPT ![t].pc = "md_walk",
                                    ![t].cur = task[t].target]
            /\ UNCHANGED <<clock, lastDel>>
    /\ UNCHANGED <<directories, files, blobs, usedDirIds, usedFileIds,
                   failures>>

\* An is_ancestor_of that looks at the parent of target_id and no further.
WalkStepParentOnly(found, ancestor_id) ==
    IF found = {} THEN "false"
    ELSE LET dir == CHOOSE r \in found : TRUE
         IN  IF dir.parent_id = ancestor_id THEN "true" ELSE "false"

\* An is_ancestor_of that finds no ancestor.
WalkStepBlind(found, ancestor_id) == "false"

\* One round of is_ancestor_of's loop on the row get_directory(current)
\* found: "true", "false", or the id to go on with.
WalkStep(found, ancestor_id) ==
    IF found = {} THEN "false"
    ELSE LET dir == CHOOSE r \in found : TRUE
         IN  IF dir.parent_id = Null THEN "false"
             ELSE IF dir.parent_id = ancestor_id THEN "true"
             ELSE "next"

\* The rounds of is_ancestor_of's loop are counted up to here.
MaxHops == MaxDirs + 1

\* self.get_directory(&current).await in is_ancestor_of, and what the loop
\* does with the row; hops counts the rounds that went on to a parent.
MdWalk(t) ==
    /\ task[t].pc = "md_walk"
    /\ Replied
    /\ LET found == SelectDirectory(directories, task[t].cur)
           step == WalkStep(found, task[t].id)
       IN  CASE step = "false" -> ToUpdate(t)
             [] step = "true" -> Finish(t, "InvalidMove") /\ UNCHANGED clock
             [] OTHER ->
                  /\ \E dir \in found :
                        task' = [task EXCEPT
                                    ![t].cur = dir.parent_id,
                                    ![t].hops = Min(@ + 1, MaxHops)]
                  /\ UNCHANGED <<clock, lastDel>>
    /\ UNCHANGED <<directories, files, blobs, usedDirIds, usedFileIds,
                   failures>>

\* UPDATE directories SET parent_id = ?, updated_at = ? WHERE id = ? .await;
\* no row affected returns Ok(None).
MdUpdate(t) ==
    /\ task[t].pc = "md_update"
    /\ Replied
    /\ directories' = UpdateDirectoryParent(directories, task[t].id,
                                            task[t].target, task[t].now)
    /\ IF task[t].id \in DOMAIN directories
       THEN /\ task' = [task EXCEPT ![t].pc = "md_get"]
            /\ UNCHANGED lastDel
       ELSE Finish(t, "none")
    /\ UNCHANGED <<files, blobs, usedDirIds, usedFileIds, clock, failures>>

\* self.get_directory(dir_id).await, then Ok(directory).
MdGet(t) ==
    /\ task[t].pc = "md_get"
    /\ Replied
    /\ Finish(t, IF SelectDirectory(directories, task[t].id) = {}
                 THEN "none" ELSE "some")
    /\ UNCHANGED <<directories, files, blobs, usedDirIds, usedFileIds,
                   clock, failures>>

\* -------------------------------------------------------------- list_files
\* A SELECT without the WHERE.
SelectFilesEverywhere(fs, parent) == { fs[f] : f \in DOMAIN fs }

\* The WHERE of list_files: parent_directory_id = ? for Some(dir_id),
\* parent_directory_id IS NULL for None.
SelectFilesIn(fs, parent) ==
    { fs[f] : f \in { g \in DOMAIN fs : fs[g].parent_directory_id = parent } }

\* The second of the day at which the clock starts, and the nanoseconds
\* from one instant of the clock to the next.
EpochSecs == 10
TickNanos == 500

RECURSIVE Digits(_, _)
\* v in k decimal digits, as code points.
Digits(v, k) ==
    IF k = 0 THEN <<>> ELSE Digits(v \div 10, k - 1) \o <<48 + (v % 10)>>

\* Utc::now().to_rfc3339() of the instant n of the clock, as code points:
\* date, T, HH:MM:SS, then no fraction when the nanoseconds are 0, else
\* a point and 3, 6 or 9 digits, whichever is the fewest that lose nothing,
\* then +00:00.  A row holds the instant; the column holds this text.
ToRfc3339(n) ==
    LET nanos == (n * TickNanos) % 1000000000
        secs == EpochSecs + ((n * TickNanos) \div 1000000000)
        date == <<50, 48, 50, 52, 45, 48, 49, 45, 48, 49>>
        time == Digits(secs \div 3600, 2) \o <<58>>
                \o Digits((secs \div 60) % 60, 2) \o <<58>>
                \o Digits(secs % 60, 2)
        fraction ==
            IF nanos = 0 THEN <<>>
            ELSE IF nanos % 1000000 = 0
                 THEN <<46>> \o Digits(nanos \div 1000000, 3)
            ELSE IF nanos % 1000 = 0
                 THEN <<46>> \o Digits(nanos \div 1000, 6)
            ELSE <<46>> \o Digits(nanos, 9)
    IN  date \o <<84>> \o time \o fraction \o <<43, 48, 48, 58, 48, 48>>

\* The order of two TEXT values in SQLite: byte by byte, a text before the
\* longer texts it begins.
TextLess(a, b) ==
    \E i \in 1..(Len(a) + 1) :
        /\ i <= Len(b)
        /\ \A k \in 1..(i - 1) : a[k] = b[k]
        /\ i <= Len(a) => a[i] < b[i]

\* An ORDER BY uploaded_at that goes upwards.
OrderByUploadedAtAsc(rows) ==
    { s \in [1..Cardinality(rows) -> rows] :
        /\ \A r \in rows : \E i \in DOMAIN s : s[i] = r
        /\ \A i, j \in DOMAIN s :
              i < j => ~TextLess(ToRfc3339(s[j].uploaded_at),
                                 ToRfc3339(s[i].uploaded_at)) }

\* ORDER BY uploaded_at DESC: the orders a result may come in, the column
\* compared as the text it is; rows with equal uploaded_at come in any
\* order.
OrderByUploadedAtDesc(rows) ==
    { s \in [1..Cardinality(rows) -> rows] :
        /\ \A r \in rows : \E i \in DOMAIN s : s[i] = r
        /\ \A i, j \in DOMAIN s :
              i < j => ~TextLess(ToRfc3339(s[i].uploaded_at),
                                 ToRfc3339(s[j].uploaded_at)) }

\* list_files is called.
CallListFiles(t) ==
    \E parent \in ParentInputs :
        /\ Start(t, [IdleTask EXCEPT !.op = "list_files", !.pc = "lf_select",
                                     !.target = parent])
        /\ UNCHANGED <<directories, files, blobs, usedDirIds, usedFileIds,
                       clock, failures, lastDel>>

\* SELECT ... FROM files WHERE ... ORDER BY uploaded_at DESC with fetch_all,
\* then Ok(files).
LfSelect(t) ==
    /\ task[t].pc = "lf_select"
    /\ Replied
    /\ \E rows \in OrderByUploadedAtDesc(SelectFilesIn(files, task[t].target)) :
        /\ task' = [task EXCEPT ![t] =
                        [@ EXCEPT !.pc = "done", !.ret = "ok", !.out = rows]]
        /\ lastDel' = Completed(lastDel, "list_files", task[t].target, "ok")
    /\ UNCHANGED <<directories, files, blobs, usedDirIds, usedFileIds,
                   clock, failures>>

\* ----------------------------------------------------- get_directory_stats
\* The NULL an aggregate over no rows gives.
SqlNull == -1

RECURSIVE SumFileSize(_)
\* SUM(file_size) over a non-empty set of rows.
SumFileSize(rows) ==
    IF rows = {} THEN 0
    ELSE LET r == CHOOSE x \in rows : TRUE
         IN  r.file_size + SumFileSize(rows \ {r})

RECURSIVE Below(_, _, _)
\* d and the directories whose parent is in the set, n levels down.
Below(dirs, S, n) ==
    IF n = 0 THEN S
    ELSE Below(dirs, S \cup { x \in DOMAIN dirs : dirs[x].parent_id \in S },
               n - 1)

\* A COUNT and SUM over the files of d and of every directory below it.
CountAndSumDeep(fs, d) ==
    LET rows == { fs[f] : f \in { g \in DOMAIN fs :
                      fs[g].parent_directory_id
                          \in Below(directories, {d}, MaxDirs) } }
    IN  <<Cardinality(rows),
          IF rows = {} THEN SqlNull ELSE SumFileSize(rows)>>

\* SELECT COUNT(*), SUM(file_size) FROM files WHERE parent_directory_id = ?:
\* the count, and the sum or NULL when no row matches.
CountAndSum(fs, d) ==
    LET rows == { fs[f] : f \in { g \in DOMAIN fs :
                                    fs[g].parent_directory_id = d } }
    IN  <<Cardinality(rows),
          IF rows = {} THEN SqlNull ELSE SumFileSize(rows)>>

\* The match on the row fetched: (count, size), (count, 0) for a NULL sum.
StatsOf(result) ==
    IF result[2] = SqlNull THEN <<result[1], 0>> ELSE result

\* get_directory_stats is called.
CallGetDirectoryStats(t) ==
    \E d \in DirIdInputs :
        /\ Start(t, [IdleTask EXCEPT !.op = "get_directory_stats",
                                     !.pc = "gs_select", !.id = d])
        /\ UNCHANGED <<directories, files, blobs, usedDirIds, usedFileIds,
                       clock, failures, lastDel>>

\* The SELECT with fetch_optional .await, then the match.
GsSelect(t) ==
    /\ task[t].pc = "gs_select"
    /\ Replied
    /\ task' = [task EXCEPT ![t] =
                    [@ EXCEPT !.pc = "done", !.ret = "ok",
                              !.out = StatsOf(CountAndSum(files, task[t].id))]]
    /\ lastDel' = Completed(lastDel, "get_directory_stats", task[t].id, "ok")
    /\ UNCHANGED <<directories, files, blobs, usedDirIds, usedFileIds,
                   clock, failures>>

\* ------------------------------------------------------ the upload handler
\* An upload handler that looks at the file name only.
UploadRejectsNoName(filename, file_data) == filename = <<>>

\* if filename.is_empty() || file_data.is_empty()
UploadRejects(filename, file_data) == filename = <<>> \/ file_data = <<>>

\* upload_file has read the multipart fields and replies 400 Bad Request
\* without calling save_file.
UploadBadRequest(t, names, contents) ==
    \E filename \in names \cup {<<>>}, file_data \in contents :
        /\ UploadRejects(filename, file_data)
        /\ Start(t, [IdleTask EXCEPT !.op = "upload_file", !.pc = "done",
                                     !.ret = "BadRequest", !.via = "upload",
                                     !.name = filename,
                                     !.content = file_data])
        /\ lastDel' = Completed(lastDel, "upload_file", Null, "BadRequest")
        /\ UNCHANGED <<directories, files, blobs, usedDirIds, usedFileIds,
                       clock, failures>>

\* upload_file has read the multipart fields and calls save_file with them.
UploadSave(t, names, contents, limit) ==
    \E id \in FreshIds(FileIds, usedFileIds), filename \in names \cup {<<>>},
       file_data \in contents, parent \in ParentInputs :
        /\ Cardinality(usedFileIds) < limit
        /\ ~UploadRejects(filename, file_data)
        /\ Start(t, [IdleTask EXCEPT !.op = "save_file", !.pc = "sf_create",
                                     !.via = "upload", !.id = id,
                                     !.name = filename,
                                     !.content = file_data,
                                     !.target = parent,
                                     !.path = StoragePath(id, filename)])
        /\ usedFileIds' = usedFileIds \cup {id}
        /\ UNCHANGED <<directories, files, blobs, usedDirIds, clock,
                       failures, lastDel>>

\* ------------------------------------------------------------- bulk_delete
\* bulk_delete is called.
CallBulkDelete(t) ==
    \E fids \in SeqsUpTo(FileIdInputs, MaxBulk),
       dids \in SeqsUpTo(DirIdInputs, MaxBulk) :
        /\ Start(t, [IdleTask EXCEPT !.op = "bulk_delete", !.pc = "bd_next",
                                     !.fids = fids, !.dids = dids,
                                     !.args = <<fids, dids>>,
                                     !.snap = stores])
        /\ UNCHANGED <<directories, files, blobs, usedDirIds, usedFileIds,
                       clock, failures, lastDel>>

\* Loops that take the directory ids first.
NextEntryDirsFirst(fids, dids) ==
    IF dids # <<>> THEN "dir" ELSE IF fids # <<>> THEN "file" ELSE "end"

\* The order of the two for loops: the file ids, then the directory ids.
NextEntry(fids, dids) ==
    IF fids # <<>> THEN "file" ELSE IF dids # <<>> THEN "dir" ELSE "end"

\* The two for loops: the next file id, then the next directory id, then
\* Ok((deleted_files, deleted_directories)).
BdNext(t) ==
    /\ task[t].pc = "bd_next"
    /\ Replied
    /\ LET next == NextEntry(task[t].fids, task[t].dids)
       IN  CASE next = "file" ->
                  /\ task' = [task EXCEPT ![t].pc = "df_get",
                                          ![t].id = Head(task[t].fids),
                                          ![t].fids = Tail(task[t].fids)]
                  /\ UNCHANGED lastDel
             [] next = "dir" ->
                  /\ task' = [task EXCEPT ![t].pc = "dd_get",
                                          ![t].id = Head(task[t].dids),
                                          ![t].dids = Tail(task[t].dids)]
                  /\ UNCHANGED lastDel
             [] OTHER -> Finish(t, "ok")
    /\ UNCHANGED <<directories, files, blobs, usedDirIds, usedFileIds,
                   clock, failures>>

\* ----------------------------------------------------------- failing steps
\* The steps that call the blob store or the metadata store.
StorePcs ==
    {"sf_create", "sf_write", "sf_insert", "df_get", "df_remove",
     "df_delete", "cd_insert", "dd_get", "dd_delete_files", "dd_delete_dir",
     "mf_update", "mf_get", "md_walk", "md_update", "md_get", "lf_select",
     "gs_select"}

\* A store call of task t returns an error (StorageIO or MetadataIO) and
\* changes nothing; every store call of the methods is followed by ?.
IoFail(t) ==
    /\ task[t].pc \in StorePcs
    /\ Replied
    /\ failures < MaxFailures
    /\ StepFails(t, "IoError")
    /\ UNCHANGED <<directories, files, blobs, usedDirIds, usedFileIds,
                   clock>>

\* Time passes.
Tick ==
    /\ clock < MaxClock
    /\ clock' = clock + 1
    /\ UNCHANGED <<directories, files, blobs, usedDirIds, usedFileIds,
                   failures, lastDel, task>>

\* The handler replies with what the method returned and the task ends.
Reply(t) ==
    /\ task[t].pc = "done"
    /\ task' = [task EXCEPT ![t] = IdleTask]
    /\ UNCHANGED <<directories, files, blobs, usedDirIds, usedFileIds,
                   clock, failures, lastDel>>

\* ---------------------------------------------------------- specifications
\* No method reads a stored timestamp to decide what it does, so the
\* specifications that are not about timestamps leave the clock where it is.

SaveFile(t) == SfCreate(t) \/ SfWrite(t) \/ SfInsert(t)
DeleteFile(t) == DfGet(t) \/ DfExists(t) \/ DfRemove(t) \/ DfDelete(t)
MoveFile(t) == CallMoveFile(t) \/ MfUpdate(t) \/ MfGet(t)
CreateDirectory(t) == CallCreateDirectory(t) \/ CdInsert(t)
DeleteDirectory(t) == DdGet(t) \/ DdDeleteFiles(t) \/ DdDeleteDir(t)
MoveDirectory(t) ==
    CallMoveDirectory(t) \/ MdCheck(t) \/ MdWalk(t) \/ MdUpdate(t) \/ MdGet(t)

\* One file name and one content, for the specifications about the tree.
OneName == { <<"r", ".", "t">> }
OneContent == { <<7, 9>> }

\* One request at a time on the directory tree, while time passes.
MoveNext ==
    \/ CreateDirectory(1) \/ MoveDirectory(1)
    \/ CallSaveFile(1, OneName, OneContent, MaxMoveFiles) \/ SaveFile(1)
    \/ Reply(1)
    \/ Tick

\* One request at a time on the tree and the files in it.
TreeNext ==
    \/ CreateDirectory(1) \/ MoveDirectory(1)
    \/ CallDeleteDirectory(1) \/ DeleteDirectory(1)
    \/ CallSaveFile(1, OneName, OneContent, MaxFiles) \/ SaveFile(1)
    \/ MoveFile(1)
    \/ Reply(1)

\* One request at a time on the files.
SeqFileNext ==
    \/ CallSaveFile(1, Filenames, Contents, MaxFiles) \/ SaveFile(1)
    \/ MoveFile(1)
    \/ CallDeleteFile(1) \/ DeleteFile(1)
    \/ CallBulkDelete(1) \/ BdNext(1)
    \/ IoFail(1)
    \/ Reply(1)

\* Directory requests served concurrently.
DirNext ==
    \E t \in Tasks : CreateDirectory(t) \/ MoveDirectory(t) \/ Reply(t)

\* Directory requests served concurrently while time passes.
StampNext ==
    \/ \E t \in Tasks :
          \/ CallCreateDirectoryUpTo(t, MaxStampDirs) \/ CdInsert(t)
          \/ MoveDirectory(t)
          \/ Reply(t)
    \/ Tick

\* File requests served concurrently, with store steps that fail.
FileNext ==
    \E t \in Tasks :
        \/ CallSaveFile(t, Filenames, Contents, MaxFiles) \/ SaveFile(t)
        \/ MoveFile(t)
        \/ CallDeleteFile(t) \/ DeleteFile(t)
        \/ IoFail(t)
        \/ Reply(t)

\* One request at a time: files saved into the tree, listed and counted,
\* while time passes.
ListNext ==
    \/ CreateDirectory(1)
    \/ CallSaveFile(1, OneName, Contents, MaxFiles) \/ SaveFile(1)
    \/ CallListFiles(1) \/ LfSelect(1)
    \/ CallGetDirectoryStats(1) \/ GsSelect(1)
    \/ Reply(1)
    \/ Tick

\* One request at a time: bulk deletes of files and directories, with store
\* steps that fail.
BulkNext ==
    \/ CallCreateDirectoryUpTo(1, MaxBulkDirs) \/ CdInsert(1)
    \/ CallSaveFile(1, OneName, OneContent, MaxBulkFiles) \/ SaveFile(1)
    \/ CallBulkDelete(1) \/ BdNext(1)
    \/ DeleteFile(1) \/ DeleteDirectory(1)
    \/ IoFail(1)
    \/ Reply(1)

\* One request at a time: uploads through the handler and direct calls of
\* save_file.
UploadNext ==
    \/ UploadBadRequest(1, Filenames, Contents)
    \/ UploadSave(1, Filenames, Contents, MaxFiles)
    \/ CallSaveFile(1, Filenames, Contents, MaxFiles) \/ SaveFile(1)
    \/ CallDeleteFile(1) \/ DeleteFile(1)
    \/ Reply(1)

MoveSpec == Init /\ [][MoveNext]_vars
ListSpec == Init /\ [][ListNext]_vars
BulkSpec == Init /\ [][BulkNext]_vars
UploadSpec == Init /\ [][UploadNext]_vars
TreeSpec == Init /\ [][TreeNext]_vars
SeqFileSpec == Init /\ [][SeqFileNext]_vars
DirSpec == Init /\ [][DirNext]_vars
StampSpec == Init /\ [][StampNext]_vars
FileSpec == Init /\ [][FileNext]_vars

\* ------------------------------------------------------------ the tree
RECURSIVE Up(_, _, _)
\* The ids met in at most n steps up the parent_id references from x.
Up(dirs, x, n) ==
    IF n = 0 \/ x \notin DOMAIN dirs THEN {}
    ELSE IF dirs[x].parent_id = Null THEN {}
    ELSE {dirs[x].parent_id} \cup Up(dirs, dirs[x].parent_id, n - 1)

\* The ids above x: its parent, the parent's parent, and so on.
ProperAncestors(dirs, x) == Up(dirs, x, Cardinality(DOMAIN dirs))

\* x is below d, at any depth.
IsProperDescendant(dirs, x, d) == d \in ProperAncestors(dirs, x)

\* No directory is above itself.
Acyclic(dirs) == \A x \in DOMAIN dirs : x \notin ProperAncestors(dirs, x)

\* Task t runs op and has not returned from it.
Running(t, op) == task[t].op = op /\ task[t].pc \notin {"idle", "done"}

\* Task t takes a step.
Steps(t) == task'[t] # task[t]

\* Task t returns from op in this step.
Returns(t, op) == Running(t, op) /\ task'[t].pc = "done"

\* ------------------------------------------------------------------ claims

\* C1: from an acyclic forest, in every state any interleaving of concurrent
\* move_directory calls reaches, the parent relation of directories is
\* acyclic.
C1_ConcurrentMovesAcyclic == Acyclic(directories)

\* C2: for every directory id and every directory t below id at any depth,
\* move_directory(id, t) returns InvalidMove, and no step of it changes a
\* directory row or a file row.
C2_DescendantMoveRejected ==
    [][\A t \in Tasks :
        ( /\ Running(t, "move_directory")
          /\ task[t].id \in DOMAIN directories
          /\ task[t].target \in DOMAIN directories
          /\ IsProperDescendant(directories, task[t].target, task[t].id)
          /\ Steps(t) )
        => /\ UNCHANGED <<directories, files>>
           /\ task'[t].pc \in {"md_walk", "done"}
           /\ task'[t].pc = "done" => task'[t].ret = "InvalidMove"]_vars

\* C2 happens: a move of a directory under a directory two levels below it
\* has returned InvalidMove, with a file row in the table.
C2_Witness ==
    \E t \in Tasks :
        /\ task[t].pc = "done" /\ task[t].op = "move_directory"
        /\ task[t].ret = "InvalidMove"
        /\ task[t].id \in DOMAIN directories
        /\ task[t].target \in DOMAIN directories
        /\ directories[task[t].target].parent_id # task[t].id
        /\ IsProperDescendant(directories, task[t].target, task[t].id)
        /\ DOMAIN files # {}

\* C3: for every id, of a directory or of none, move_directory(id, id)
\* returns InvalidMove at once, and changes neither table.
C3_SelfMoveRejected ==
    [][\A t \in Tasks :
        ( /\ Running(t, "move_directory")
          /\ task[t].target = task[t].id
          /\ Steps(t) )
        => /\ UNCHANGED <<directories, files>>
           /\ task'[t].pc = "done"
           /\ task'[t].ret = "InvalidMove"]_vars

\* C3 happens: a move of an existing directory into itself has returned,
\* with a file row in the table.
C3_Witness ==
    \E t \in Tasks :
        /\ task[t].pc = "done" /\ task[t].op = "move_directory"
        /\ task[t].target = task[t].id
        /\ task[t].id \in DOMAIN directories
        /\ DOMAIN files # {}

\* C4: in every reachable state every file row's parent_directory_id is
\* absent or the id of an existing directory row.
C4_FileParentsExist ==
    \A f \in DOMAIN files :
        \/ files[f].parent_directory_id = Null
        \/ files[f].parent_directory_id \in DOMAIN directories

\* C5: in every reachable state every directory row's parent_id is absent
\* or the id of an existing directory row.
C5_DirectoryParentsExist ==
    \A d \in DOMAIN directories :
        \/ directories[d].parent_id = Null
        \/ directories[d].parent_id \in DOMAIN directories

\* C6: when no save_file or delete_file call is under way and no store step
\* has failed, every row of files has a blob at its storage_path.
C6_RowsHaveBlobs ==
    ( /\ failures = 0
      /\ \A t \in Tasks : ~Running(t, "save_file")
                          /\ ~Running(t, "delete_file") )
    => \A f \in DOMAIN files : BlobExists(blobs, files[f].storage_path)

\* C6 happens: a delete_file has returned true, nothing has failed, no
\* save_file or delete_file is under way, and a file row is left.
C6_Witness ==
    /\ failures = 0
    /\ \A t \in Tasks : ~Running(t, "save_file") /\ ~Running(t, "delete_file")
    /\ DOMAIN files # {}
    /\ \E t \in Tasks : /\ task[t].pc = "done" /\ task[t].op = "delete_file"
                        /\ task[t].ret = "true"

\* C7: when delete_directory(d) returns true there is no row for d, no row
\* for a directory that was below d at any depth, and no file row whose
\* parent was d or a directory below d.
C7_DeleteDirectoryCascades ==
    [][\A t \in Tasks :
        LET d == task[t].id
            gone == {d} \cup { x \in DOMAIN directories :
                                 IsProperDescendant(directories, x, d) }
        IN  /\ ( task[t].pc = "dd_delete_files" /\ Steps(t)
                 /\ task'[t].pc # "done" )
               => \A f \in DOMAIN files' :
                      files'[f].parent_directory_id # d
            /\ ( Returns(t, "delete_directory") /\ task'[t].ret = "true" )
               => /\ gone \cap DOMAIN directories' = {}
                  /\ \A f \in DOMAIN files' :
                         files[f].parent_directory_id \notin gone]_vars

\* C7 happens: delete_directory(d) is about to delete the row of d while a
\* directory two levels below d holds a file.
C7_Witness ==
    \E t \in Tasks :
        /\ task[t].op = "delete_directory" /\ task[t].pc = "dd_delete_dir"
        /\ \E x \in DOMAIN directories, f \in DOMAIN files :
            /\ IsProperDescendant(directories, x, task[t].id)
            /\ directories[x].parent_id # task[t].id
            /\ files[f].parent_directory_id = x

\* C8: when delete_file(id) is called again right after delete_file(id)
\* returned, the row of id is absent, no step of the second call changes
\* the files table, the directories table or the blob store, and it
\* returns false unless a store step of it fails.
C8_SecondDeleteChangesNothing ==
    [][/\ lastDel'.n > 0 => lastDel'.id \notin DOMAIN files'
       /\ \A t \in Tasks :
            ( /\ Running(t, "delete_file")
              /\ lastDel.n > 0 /\ lastDel.id = task[t].id
              /\ Steps(t) )
            => /\ UNCHANGED <<directories, files, blobs>>
               /\ task'[t].pc = "done"
                  => \/ task'[t].ret = "false"
                     \/ failures' # failures]_vars

\* C8 happens: delete_file(id) returned true and the next call, another
\* delete_file(id), has returned too, while another file is stored.
C8_Witness ==
    /\ lastDel.n = 2 /\ lastDel.first = "true"
    /\ DOMAIN files # {}
    /\ \E t \in Tasks : /\ task[t].pc = "done" /\ task[t].op = "delete_file"
                        /\ task[t].id = lastDel.id

\* C9: a delete_file on an existing row that finds the blob gone when it
\* comes to remove it returns no error.
C9_MissingBlobTolerated ==
    \A t \in Tasks :
        ~( task[t].pc = "done" /\ task[t].op = "delete_file"
           /\ task[t].ret = "NotFound" )

\* C10: every save_file that returns adds exactly one row, under an id and
\* a storage_path no other row has, and the blob at that storage_path
\* holds the bytes the call was given; the blob of a row is never
\* rewritten afterwards.
C10_ConcurrentSavesKeepTheirBytes ==
    [][/\ \A t \in Tasks :
            Returns(t, "save_file") /\ task'[t].ret = "ok"
            => LET id == task[t].id
               IN  /\ id \notin DOMAIN files
                   /\ DOMAIN files' = DOMAIN files \cup {id}
                   /\ \A f \in DOMAIN files : files'[f] = files[f]
                   /\ \A f \in DOMAIN files :
                          files[f].storage_path # files'[id].storage_path
                   /\ BlobExists(blobs', files'[id].storage_path)
                   /\ blobs'[files'[id].storage_path] = task[t].content
       /\ \A f \in DOMAIN files \cap DOMAIN files' :
            LET p == files[f].storage_path
            IN  BlobExists(blobs, p) /\ BlobExists(blobs', p)
                => blobs'[p] = blobs[p]]_vars

\* C10 happens: of two save_file calls given the same name and different
\* bytes, both of which had written their blob before either stored its
\* row, one has returned and the other is about to store its row.
C10_Witness ==
    \E t, u \in Tasks :
        /\ task[t].pc = "done" /\ task[t].op = "save_file"
        /\ task[t].ret = "ok"
        /\ task[u].pc = "sf_insert"
        /\ task[t].name = task[u].name
        /\ task[t].content # task[u].content
        /\ DOMAIN files = {task[t].id}

\* C11: a file saved with parent d is listed by list_files(d) and by
\* list_files of nothing else, the root included; a file saved with no
\* parent is listed at the root only; and list_files returns the rows of
\* its argument, each once, and no other row.
C11_ListedUnderItsParentOnly ==
    /\ \A t \in Tasks :
        ( task[t].pc = "done" /\ task[t].op = "save_file"
          /\ task[t].ret = "ok" )
        => /\ task[t].id \in DOMAIN files
           /\ \A e \in DirIds \cup {Ghost, Null} :
                  files[task[t].id] \in SelectFilesIn(files, e)
                      <=> e = task[t].target
    /\ \A t \in Tasks :
        ( task[t].pc = "done" /\ task[t].op = "list_files" )
        => /\ \A f \in DOMAIN files :
                  ( \E i \in DOMAIN task[t].out : task[t].out[i] = files[f] )
                      <=> files[f].parent_directory_id = task[t].target
           /\ \A i, j \in DOMAIN task[t].out :
                  task[t].out[i] = task[t].out[j] => i = j
           /\ \A i \in DOMAIN task[t].out :
                  \E f \in DOMAIN files : task[t].out[i] = files[f]

\* C11 happens: list_files(d) of a directory d has returned one of two
\* files, the other being at the root.
C11_Witness ==
    \E t \in Tasks :
        /\ task[t].pc = "done" /\ task[t].op = "list_files"
        /\ task[t].target \in DOMAIN directories
        /\ Len(task[t].out) = 1
        /\ \E f \in DOMAIN files : files[f].parent_directory_id = Null

RECURSIVE SizeOfListing(_)
\* The file_size of the rows of a listing, added up.
SizeOfListing(rows) ==
    IF rows = <<>> THEN 0
    ELSE Head(rows).file_size + SizeOfListing(Tail(rows))

\* C12: with nothing else under way, get_directory_stats(d) returns the
\* number of rows list_files(d) returns and the sum of their file_size,
\* (0, 0) when there is none; files of directories below d are not counted.
C12_StatsAreOfTheListing ==
    \A t \in Tasks :
        ( task[t].pc = "done" /\ task[t].op = "get_directory_stats" )
        => /\ \A rows \in OrderByUploadedAtDesc(
                                SelectFilesIn(files, task[t].id)) :
                  task[t].out = <<Len(rows), SizeOfListing(rows)>>
           /\ task[t].out[1] =
                  Cardinality({ f \in DOMAIN files :
                                  files[f].parent_directory_id = task[t].id })
           /\ task[t].out[1] = 0 => task[t].out = <<0, 0>>

\* C12 happens: get_directory_stats(d) has returned while d holds a file
\* that is not empty and a directory in d holds another.
C12_Witness ==
    \E t \in Tasks :
        /\ task[t].pc = "done" /\ task[t].op = "get_directory_stats"
        /\ task[t].out[2] > 0
        /\ \E x \in DOMAIN directories, f \in DOMAIN files :
            /\ directories[x].parent_id = task[t].id
            /\ files[f].parent_directory_id = x
            /\ files[f].file_size > 0

\* C13: when create_directory has returned d and the next call,
\* delete_directory(d.id), has returned, it returned true and the
\* directories table, the files table and the blob store are what they
\* were when create_directory was called.
C13_CreateThenDeleteRestores ==
    \A t \in Tasks :
        ( /\ task[t].pc = "done" /\ task[t].op = "delete_directory"
          /\ lastDel.first = "unmade" /\ lastDel.id = task[t].id )
        => /\ task[t].ret = "true"
           /\ <<directories, files, blobs>> = lastDel.snap

\* C13 happens: delete_directory has returned right after the
\* create_directory that made its directory, in a store that holds another
\* directory and a file in a directory.
C13_Witness ==
    \E t \in Tasks :
        /\ task[t].pc = "done" /\ task[t].op = "delete_directory"
        /\ lastDel.first = "unmade" /\ lastDel.id = task[t].id
        /\ DOMAIN directories # {}
        /\ \E f \in DOMAIN files : files[f].parent_directory_id # Null

RECURSIVE BulkOutcome(_, _, _)
\* What deleting the files fids and then the directories dids, one whole
\* delete after the other, makes of st: the stores left and the number of
\* entries that removed their row.  A directory takes with it what is below
\* it; a file takes its blob.
BulkOutcome(st, fids, dids) ==
    IF fids # <<>>
    THEN LET id == Head(fids)
             hit == id \in DOMAIN st.fs
         IN  BulkOutcome(
                 [st EXCEPT !.fs = Without(@, {id}),
                            !.bl = IF hit
                                   THEN Without(@, {st.fs[id].storage_path})
                                   ELSE @,
                            !.nf = IF hit THEN @ + 1 ELSE @],
                 Tail(fids), dids)
    ELSE IF dids # <<>>
    THEN LET id == Head(dids)
             hit == id \in DOMAIN st.dirs
             gone == IF hit
                     THEN {id} \cup { x \in DOMAIN st.dirs :
                                        IsProperDescendant(st.dirs, x, id) }
                     ELSE {}
         IN  BulkOutcome(
                 [st EXCEPT !.dirs = Without(@, gone),
                            !.fs = Without(@, { f \in DOMAIN st.fs :
                                       st.fs[f].parent_directory_id \in gone }),
                            !.nd = IF hit THEN @ + 1 ELSE @],
                 fids, Tail(dids))
    ELSE st

\* The stores snap, with no entry counted yet.
BulkStart(snap) ==
    [dirs |-> snap[1], fs |-> snap[2], bl |-> snap[3], nf |-> 0, nd |-> 0]

\* C14: a bulk_delete none of whose steps fails returns the number of
\* file ids and of directory ids that removed their row when taken in
\* order, all file ids first: an id with no row, an id repeated, and a
\* directory already gone with a directory above it count nothing and
\* raise no error; the stores are left as those deletes leave them.
C14_BulkCountsRowsRemoved ==
    \A t \in Tasks :
        ( task[t].pc = "done" /\ task[t].op = "bulk_delete"
          /\ task[t].ret \notin Errors )
        => LET e == BulkOutcome(BulkStart(task[t].snap), task[t].args[1],
                                task[t].args[2])
           IN  /\ task[t].ret = "ok"
               /\ task[t].nf = e.nf /\ task[t].nd = e.nd
               /\ directories = e.dirs /\ files = e.fs /\ blobs = e.bl

\* C14 happens: a bulk_delete of a file and of two directories, the second
\* of which was in the first and held the file, has returned (1, 1).
C14_Witness ==
    \E t \in Tasks :
        /\ task[t].pc = "done" /\ task[t].op = "bulk_delete"
        /\ task[t].ret = "ok"
        /\ task[t].nf = 1 /\ task[t].nd = 1
        /\ Len(task[t].args[1]) = 1 /\ Len(task[t].args[2]) = 2
        /\ LET dirs == task[t].snap[1]
               fs == task[t].snap[2]
               f == task[t].args[1][1]
               d == task[t].args[2][1]
               x == task[t].args[2][2]
           IN  /\ {d, x} \subseteq DOMAIN dirs /\ f \in DOMAIN fs
               /\ dirs[x].parent_id = d
               /\ fs[f].parent_directory_id = x

\* The bulk_delete whose locals are b has stopped at entry b.id: in stores
\* dirs, fs, bl the entries before it have had their whole effect, the
\* entries after it none, and the entry itself has removed at most the blob
\* of its file or the files directly in its directory.
StoppedAtEntry(b, dirs, fs, bl) ==
    LET inDirs == Len(b.dids) < Len(b.args[2])
        doneF == SubSeq(b.args[1], 1,
                        Len(b.args[1]) - Len(b.fids) - (IF inDirs THEN 0 ELSE 1))
        doneD == IF inDirs
                 THEN SubSeq(b.args[2], 1, Len(b.args[2]) - Len(b.dids) - 1)
                 ELSE <<>>
        e == BulkOutcome(BulkStart(b.snap), doneF, doneD)
    IN  /\ \A k \in DOMAIN doneF : doneF[k] \notin DOMAIN fs
        /\ \A k \in DOMAIN doneD : doneD[k] \notin DOMAIN dirs
        /\ dirs = e.dirs
        /\ DOMAIN fs \subseteq DOMAIN e.fs
        /\ \A f \in DOMAIN e.fs :
              \/ f \in DOMAIN fs /\ fs[f] = e.fs[f]
              \/ inDirs /\ e.fs[f].parent_directory_id = b.id
        /\ DOMAIN bl \subseteq DOMAIN e.bl
        /\ \A q \in DOMAIN e.bl :
              \/ q \in DOMAIN bl /\ bl[q] = e.bl[q]
              \/ ~inDirs /\ b.id \in DOMAIN e.fs
                  /\ q = e.fs[b.id].storage_path
        /\ \A k \in DOMAIN b.fids :
              LET j == b.fids[k]
              IN  ( j # b.id /\ j \in DOMAIN e.fs )
                  => /\ j \in DOMAIN fs /\ fs[j] = e.fs[j]
                     /\ e.fs[j].storage_path \in DOMAIN e.bl
                        => e.fs[j].storage_path \in DOMAIN bl
        /\ \A k \in DOMAIN b.dids :
              LET j == b.dids[k]
              IN  j \in DOMAIN e.dirs
                  => j \in DOMAIN dirs /\ dirs[j] = e.dirs[j]

\* C15: when a store step of a delete inside bulk_delete fails, bulk_delete
\* returns that error at once: the ids before the one that failed stay
\* deleted, and no id after it, file or directory, is touched.
C15_BulkStopsAtFirstFailure ==
    [][\A t \in Tasks :
        ( Running(t, "bulk_delete") /\ failures' # failures )
        => /\ task'[t].pc = "done"
           /\ task'[t].ret \in Errors
           /\ StoppedAtEntry(task'[t], directories', files', blobs')]_vars

\* C15 happens: a bulk_delete has returned an error from its second entry,
\* a directory that is still there; its first entry removed a file, and
\* the directory of its third entry is still there.
C15_Witness ==
    \E t \in Tasks :
        /\ task[t].pc = "done" /\ task[t].op = "bulk_delete"
        /\ task[t].ret \in Errors
        /\ Len(task[t].args[1]) = 1
        /\ task[t].args[1][1] \in DOMAIN task[t].snap[2]
        /\ task[t].args[1][1] \notin DOMAIN files
        /\ Len(task[t].dids) = 1 /\ Len(task[t].args[2]) = 2
        /\ task[t].id = task[t].args[2][1]
        /\ task[t].id # task[t].dids[1]
        /\ {task[t].id, task[t].dids[1]} \subseteq DOMAIN directories

\* The task with locals tk is in save_file and has not done its INSERT.
Saving(tk) == tk.op = "save_file" /\ tk.pc \in {"sf_create", "sf_write", "sf_insert"}

\* C16: no row of files is there for the id of a save_file that has not
\* done its INSERT; when the INSERT is next the blob holds all the bytes
\* given; a row appears only by that INSERT; when the INSERT fails,
\* save_file returns the error, there is no row for the id and the blob is
\* left; and a blob that no row and no save_file under way refers to is
\* never removed or rewritten.
C16_BlobWrittenBeforeRow ==
    [][/\ \A t \in Tasks :
            Saving(task'[t]) => task'[t].id \notin DOMAIN files'
       /\ \A t \in Tasks :
            task'[t].pc = "sf_insert"
            => /\ BlobExists(blobs', task'[t].path)
               /\ blobs'[task'[t].path] = task'[t].content
       /\ \A f \in DOMAIN files' \ DOMAIN files :
            \E t \in Tasks :
                /\ task[t].pc = "sf_insert" /\ task[t].id = f
                /\ task'[t].pc = "done" /\ task'[t].ret = "ok"
                /\ files'[f].storage_path = task[t].path
       /\ \A t \in Tasks :
            ( task[t].pc = "sf_insert" /\ Steps(t)
              /\ task'[t].ret # "ok" )
            => /\ task'[t].pc = "done" /\ task'[t].ret \in Errors
               /\ task[t].id \notin DOMAIN files'
               /\ BlobExists(blobs', task[t].path)
               /\ blobs'[task[t].path] = task[t].content
       /\ \A q \in DOMAIN blobs :
            ( /\ \A f \in DOMAIN files : files[f].storage_path # q
              /\ \A t \in Tasks : Saving(task[t]) => task[t].path # q )
            => BlobExists(blobs', q) /\ blobs'[q] = blobs[q]]_vars

\* C16 happens: a save_file whose INSERT failed has returned the error;
\* its blob holds the bytes and no row has its id.
C16_Witness ==
    \E t \in Tasks :
        /\ task[t].pc = "done" /\ task[t].op = "save_file"
        /\ task[t].ret \in Errors
        /\ task[t].content # <<>>
        /\ BlobExists(blobs, task[t].path)
        /\ blobs[task[t].path] = task[t].content
        /\ task[t].id \notin DOMAIN files

\* C17: a save_file given a parent_directory_id that is the id of no
\* directory row returns Ok, and the row it adds has that very value as
\* its parent_directory_id.
C17_DanglingParentStoredAsGiven ==
    [][\A t \in Tasks :
        ( /\ Returns(t, "save_file")
          /\ task[t].target # Null
          /\ task[t].target \notin DOMAIN directories )
        => /\ task'[t].ret = "ok"
           /\ task[t].id \in DOMAIN files'
           /\ files'[task[t].id].parent_directory_id = task[t].target
           /\ files'[task[t].id].parent_directory_id
                  \notin DOMAIN directories']_vars

\* C17 happens: a save_file into a directory that was deleted before has
\* returned Ok while other directories exist.
C17_Witness ==
    \E t \in Tasks :
        /\ task[t].pc = "done" /\ task[t].op = "save_file"
        /\ task[t].ret = "ok"
        /\ task[t].target \in usedDirIds \ DOMAIN directories
        /\ DOMAIN directories # {}

\* C18: whatever the directories table holds, the ancestor walk of
\* move_directory goes from a directory on to its parent at most as many
\* times as there are directory rows.
C18_AncestorWalkBounded ==
    \A t \in Tasks :
        task[t].pc = "md_walk"
        => task[t].hops <= Cardinality(DOMAIN directories)

\* C19: a delete_file that fails at the DELETE of its row leaves the row,
\* with no blob at its storage_path; and a delete_file of an id whose row
\* is there without its blob does not try to remove the blob, leaves the
\* blob store as it is and, unless a store step of it fails, returns true
\* with the row gone.
C19_RetryRemovesDanglingRow ==
    [][\A t \in Tasks :
        /\ ( /\ Running(t, "delete_file") /\ task[t].pc = "df_delete"
              /\ task[t].id \in DOMAIN files
              /\ Steps(t) /\ task'[t].ret \in Errors )
           => /\ task[t].id \in DOMAIN files'
              /\ files'[task[t].id] = files[task[t].id]
              /\ ~BlobExists(blobs', files'[task[t].id].storage_path)
        /\ ( /\ Running(t, "delete_file") /\ Dangling(task[t].id)
              /\ Steps(t) )
           => /\ task'[t].pc # "df_remove"
              /\ blobs' = blobs
              /\ ( task'[t].pc = "done" /\ failures' = failures )
                 => /\ task'[t].ret = "true"
                    /\ task[t].id \notin DOMAIN files']_vars

\* C19 happens: a delete_file failed leaving the row of id without its
\* blob, and the delete_file(id) called next has returned true with the
\* row gone, another file being stored.
C19_Witness ==
    /\ lastDel.n = 1 /\ lastDel.first = "true" /\ lastDel.after = "dangling"
    /\ lastDel.id \notin DOMAIN files
    /\ DOMAIN files # {}
    /\ \E t \in Tasks : /\ task[t].pc = "done" /\ task[t].op = "delete_file"
                        /\ task[t].id = lastDel.id /\ task[t].ret = "true"

\* C20: an upload with an empty file name or no bytes is answered 400 by
\* the handler in the step that reads it, with no id drawn, no blob and no
\* row made, and no save_file called through the handler ever has an empty
\* name or no bytes; save_file called directly with no bytes returns Ok,
\* and its row has file_size 0 and its blob is empty.
C20_EmptyUploadRejectedUpstream ==
    [][\A t \in Tasks :
        /\ ( Steps(t) /\ task'[t].via = "upload"
              /\ ( task'[t].name = <<>> \/ task'[t].content = <<>> ) )
           => /\ task'[t].op = "upload_file" /\ task'[t].pc = "done"
              /\ task'[t].ret = "BadRequest"
              /\ UNCHANGED <<directories, files, blobs, usedFileIds>>
        /\ ( Steps(t) /\ task'[t].ret = "BadRequest" )
           => ( task'[t].name = <<>> \/ task'[t].content = <<>> )
        /\ ( Returns(t, "save_file") /\ task[t].via = "none"
              /\ task[t].content = <<>> )
           => /\ task'[t].ret = "ok"
              /\ task[t].id \in DOMAIN files'
              /\ files'[task[t].id].file_size = 0
              /\ BlobExists(blobs', files'[task[t].id].storage_path)
              /\ blobs'[files'[task[t].id].storage_path] = <<>>]_vars

\* C20 happens: an upload with a file name and no bytes has been answered
\* 400 while the store holds a row of file_size 0 from a direct save_file.
C20_Witness ==
    \E t \in Tasks :
        /\ task[t].pc = "done" /\ task[t].op = "upload_file"
        /\ task[t].ret = "BadRequest"
        /\ task[t].name # <<>> /\ task[t].content = <<>>
        /\ \E f \in DOMAIN files : files[f].file_size = 0

\* C21: no step of delete_directory changes the blob store: the blob of
\* every file row it removes, of a file directly in the directory or in a
\* directory below it, is still there afterwards, with no row.
C21_DeleteDirectoryKeepsBlobs ==
    [][\A t \in Tasks :
        ( Running(t, "delete_directory") /\ Steps(t) )
        => /\ blobs' = blobs
           /\ \A f \in DOMAIN files \ DOMAIN files' :
                 /\ BlobExists(blobs', files[f].storage_path)
                 /\ \A g \in DOMAIN files' :
                        files'[g].storage_path # files[f].storage_path]_vars

\* C21 happens: delete_directory(d) has removed the row of a file in d,
\* whose blob is left without a row, and is about to delete the row of d
\* while a directory two levels below d holds a file.
C21_Witness ==
    \E t \in Tasks :
        /\ task[t].op = "delete_directory" /\ task[t].pc = "dd_delete_dir"
        /\ \E q \in DOMAIN blobs :
              \A f \in DOMAIN files : files[f].storage_path # q
        /\ \E x \in DOMAIN directories, f \in DOMAIN files :
            /\ IsProperDescendant(directories, x, task[t].id)
            /\ directories[x].parent_id # task[t].id
            /\ files[f].parent_directory_id = x
            /\ BlobExists(blobs, files[f].storage_path)

\* C22: move_file(id, p) on the id of a file row sets that row's
\* parent_directory_id to p and nothing else, and returns the row as it then
\* is; every other file row, every directory row and every blob stays as
\* it is.  On an id of no file row it returns absent and changes nothing.
C22_MoveFileChangesOnlyTheParent ==
    [][\A t \in Tasks :
        ( Running(t, "move_file") /\ Steps(t) )
        => LET id == task[t].id
           IN  /\ UNCHANGED <<directories, blobs>>
               /\ DOMAIN files' = DOMAIN files
               /\ \A f \in DOMAIN files \ {id} : files'[f] = files[f]
               /\ ( id \in DOMAIN files /\ task[t].pc = "mf_update" )
                  => /\ files'[id] = [files[id] EXCEPT
                                         !.parent_directory_id = task[t].target]
                     /\ task'[t].pc = "mf_get"
               /\ ( id \in DOMAIN files /\ task[t].pc = "mf_get" )
                  => /\ files' = files
                     /\ task'[t].pc = "done" /\ task'[t].ret = "some"
                     /\ task'[t].out = <<files'[id]>>
                     /\ files'[id].parent_directory_id = task[t].target
               /\ id \notin DOMAIN files
                  => /\ files' = files
                     /\ task'[t].pc = "done" /\ task'[t].ret = "none"
                     /\ task'[t].out = <<>>]_vars

\* C22 happens: a move_file of one of two files from one directory into
\* another has returned the row.
C22_Witness ==
    \E t \in Tasks :
        /\ task[t].pc = "done" /\ task[t].op = "move_file"
        /\ task[t].ret = "some"
        /\ task[t].target \in DOMAIN directories
        /\ \E f \in DOMAIN files :
              /\ f # task[t].id
              /\ files[f].parent_directory_id \in DOMAIN directories
              /\ files[f].parent_directory_id # task[t].target

\* C23: a move_directory(id, p) that has passed the cycle check sets the
\* parent_id of the row of id to p and its updated_at to a time not earlier
\* than the one it had, and leaves the row's name and created_at, every
\* other directory row and every file row as they are; on an id of no
\* directory row it returns absent and changes nothing.  No earlier step of
\* the call changes a row.
C23_MoveDirectoryChangesParentAndTime ==
    [][\A t \in Tasks :
        ( Running(t, "move_directory") /\ Steps(t) )
        => LET id == task[t].id
           IN  /\ UNCHANGED <<files, blobs>>
               /\ DOMAIN directories' = DOMAIN directories
               /\ \A d \in DOMAIN directories \ {id} :
                     directories'[d] = directories[d]
               /\ task[t].pc # "md_update" => directories' = directories
               /\ ( task[t].pc = "md_update" /\ id \in DOMAIN directories )
                  => /\ directories'[id].parent_id = task[t].target
                     /\ directories'[id].updated_at >= directories[id].updated_at
                     /\ directories'[id].name = directories[id].name
                     /\ directories'[id].created_at = directories[id].created_at
               /\ ( task[t].pc = "md_update" /\ id \notin DOMAIN directories )
                  => /\ directories' = directories
                     /\ task'[t].pc = "done" /\ task'[t].ret = "none"]_vars

\* C24: of two rows list_files returns, the one that comes first was
\* uploaded at an instant not earlier than the other's; and list_files of
\* the root returns every row saved into the root.
C24_ListedNewestFirst ==
    \A t \in Tasks :
        ( task[t].pc = "done" /\ task[t].op = "list_files" )
        => /\ \A i, j \in DOMAIN task[t].out :
                  i < j => task[t].out[i].uploaded_at
                               >= task[t].out[j].uploaded_at
           /\ task[t].target = Null
              => Len(task[t].out) =
                     Cardinality({ f \in DOMAIN files :
                                     files[f].parent_directory_id = Null })

\* C24 happens: list_files of the root has returned two rows saved at
\* different instants, whose uploaded_at texts differ in length.
C24_Witness ==
    \E t \in Tasks :
        /\ task[t].pc = "done" /\ task[t].op = "list_files"
        /\ task[t].target = Null
        /\ Len(task[t].out) = 2
        /\ task[t].out[1].uploaded_at # task[t].out[2].uploaded_at
        /\ Len(ToRfc3339(task[t].out[1].uploaded_at))
               # Len(ToRfc3339(task[t].out[2].uploaded_at))

\* C25: with one call at a time from the empty store, after every step of
\* every create_directory, move_directory and delete_directory no directory
\* is its own parent and none is found by going up from itself.
C25_SequentialCallsKeepForest ==
    \A x \in DOMAIN directories :
        /\ directories[x].parent_id # x
        /\ ~IsProperDescendant(directories, x, x)

\* C25 happens: a move_directory has put a directory under another one,
\* after a directory was deleted.
C25_Witness ==
    \E t \in Tasks :
        /\ task[t].pc = "done" /\ task[t].op = "move_directory"
        /\ task[t].ret = "some"
        /\ task[t].target \in DOMAIN directories
        /\ task[t].id \in DOMAIN directories
        /\ directories[task[t].id].parent_id = task[t].target
        /\ usedDirIds \ DOMAIN directories # {}

\* C26: of the delete_file calls on one id that run at the same time, a call
\* returns true in the step in which it removes the row and in no other,
\* and a row that is gone does not come back: at most one of the calls
\* returns true and the row is removed at most once.
C26_OneDeleteReturnsTrue ==
    [][/\ \A t \in Tasks :
            ( Running(t, "delete_file") /\ Steps(t) )
            => ( ( task'[t].pc = "done" /\ task'[t].ret = "true" )
                 <=> ( /\ task[t].id \in DOMAIN files
                       /\ task[t].id \notin DOMAIN files' ) )
       /\ \A f \in usedFileIds \ DOMAIN files :
            ( \A u \in Tasks : ~( Running(u, "save_file") /\ task[u].id = f ) )
            => f \notin DOMAIN files']_vars

\* C26 happens: a delete_file has returned true while another delete_file of
\* the same id, which found the row, is under way.
C26_Witness ==
    \E t, u \in Tasks :
        /\ t # u
        /\ task[t].pc = "done" /\ task[t].op = "delete_file"
        /\ task[t].ret = "true"
        /\ task[u].op = "delete_file" /\ task[u].id = task[t].id
        /\ task[u].pc \in {"df_exists", "df_remove", "df_delete"}

\* C27: when no store step has failed and no save_file or delete_file is
\* under way, every blob is at the storage_path of exactly one file row;
\* and a delete_file that has returned true, no store step having failed,
\* has left neither the row nor the blob.
C27_NoOrphanBlobWithoutFailure ==
    /\ ( /\ failures = 0
         /\ \A t \in Tasks : /\ ~Running(t, "save_file")
                              /\ ~Running(t, "delete_file") )
       => \A q \in DOMAIN blobs :
              Cardinality({ f \in DOMAIN files : files[f].storage_path = q }) = 1
    /\ \A t \in Tasks :
          ( /\ failures = 0
            /\ task[t].pc = "done" /\ task[t].op = "delete_file"
            /\ task[t].ret = "true" )
          => /\ task[t].id \notin DOMAIN files
             /\ ~BlobExists(blobs, task[t].path)

\* C27 happens: with no failed step and nothing else under way, a
\* delete_file has returned true and another file is there with its blob.
C27_Witness ==
    \E t \in Tasks :
        /\ failures = 0
        /\ task[t].pc = "done" /\ task[t].op = "delete_file"
        /\ task[t].ret = "true"
        /\ \A u \in Tasks \ {t} : task[u].pc = "idle"
        /\ Cardinality(usedFileIds) = 2
        /\ \E f \in DOMAIN files : BlobExists(blobs, files[f].storage_path)

====
